---------------------------- MODULE Spec2Model ----------------------------
(***************************************************************************)
(* Model of src/log_helper.py: the process-wide asynchronous logging       *)
(* pipeline (LogHelper / _LogBus / RouterHandler /                         *)
(* SizeAndTimeRotatingFileHandler), and of src/context: the query compiler *)
(* and the Neo4jContext wrapper (CypherSpec).                              *)
(*                                                                         *)
(* Time is counted in rotation intervals (when="midnight", interval=1: one *)
(* unit is one day), so a "slot" is the date suffix of a backup file.      *)
(* A log line is the record that produced it; its size on disk is the      *)
(* encoded length of the formatted text plus the line terminator.          *)
(***************************************************************************)
EXTENDS Integers, Sequences, FiniteSets, TLC

\* ---- bounds of the model ------------------------------------------------
MaxDay == 2
MaxWrites == 5
MaxTextBytes == 2
SmallMaxBytes == 6
MaxBackupCount == 2

\* ---- program constants ---------------------------------------------------
VERBOSE_LEVEL == 5
Interval == 1
TerminatorLen == 1
DEBUG == 10

Streams == {"a", "b"}
SinkStream == "a"
Procs == {"main", "child"}
Threads == {"m1", "c1"}
\* the threads of the main process that call the router and the registry
LocalThreads == {"m1", "m2", "m3"}
ProcOf(t) == IF t = "c1" THEN "child" ELSE "main"
\* levels used by callers: one below VERBOSE, and VERBOSE
Levels == {1, VERBOSE_LEVEL}
TextBytes == 1..MaxTextBytes
MaxBytesChoices == {0, SmallMaxBytes}
BackupCounts == 0..MaxBackupCount

VARIABLES
    now,        \* wall clock, in rotation intervals
    cfg,        \* configuration installed in the router and the console handler
    handlers,   \* RouterHandler._handlers: stream name -> file handler state
    fs,         \* the log directory: per stream the active file and its backups
    written,    \* history: per stream, the lines appended so far, in append order
    rotLog,     \* history: per stream, the rotations performed so far
    nextId,     \* number of records created so far (emit calls)
    created,    \* history: per stream, how many file handlers were constructed
    started,    \* _LogBus._started
    defaults,   \* LogHelper._defaults
    loggers,    \* per process and stream name: the logger's QueueHandlers and level
    forked,     \* whether the producer child process exists
    buf,        \* mp.Queue: per process, the buffer its feeder thread drains
    pipe,       \* mp.Queue: the pipe the listener reads
    listener,   \* QueueListener thread: "none", "running", "exited", "dead"
    stopPc,     \* the atexit hook _stop: "idle", "joining", "done"
    beforeStop, \* history: ids enqueued before _stop was invoked
    enqueued,   \* history: ids pushed into the queue
    calls,      \* history: every logging call made, as the record it describes
    failed,     \* history: ids whose file handling raised an I/O error
    consoleOut, \* history: ids written to the console, in order
    routerLock, \* RouterHandler._lock: the thread holding it, or "none"
    rpc,        \* per thread: its position in RouterHandler._get_or_create
    busLock,    \* _LogBus._lock: the thread holding it, or "none"
    spc,        \* per thread: its position in _LogBus.start / LogHelper.get_logger
    nBuses,     \* history: how many times start built queue, router and listener
    createFailed, \* history: ids whose sink could not be created (makedirs / open)
    malformed,  \* history: ids of logging calls whose arguments do not fit the template
    pbus,       \* per process that imported the module itself: its own _LogBus
    writers,    \* history: per stream, the processes whose listener wrote its file
    neo         \* a call of Neo4jContext: its arguments and what the transaction got

sinkVars == <<now, cfg, handlers, fs, written, rotLog, nextId, created>>
busVars == <<started, defaults, loggers, forked, buf, pipe, listener, stopPc,
             beforeStop, enqueued, calls, failed, consoleOut>>
concVars == <<routerLock, rpc, busLock, spc, nBuses>>
procVars == <<pbus, writers>>
extVars == <<createFailed, malformed, procVars, neo>>
vars == <<sinkVars, busVars, concVars, extVars>>

\* ---- the rotating file sink ----------------------------------------------

\* len((self.format(record) + "\n").encode(...))
LineBytes(rec) == rec.bytes + TerminatorLen

RECURSIVE FileSize(_)
\* os.stat(self.baseFilename).st_size
FileSize(lines) ==
    IF lines = <<>> THEN 0 ELSE LineBytes(Head(lines)) + FileSize(Tail(lines))

NoFile == [exists |-> FALSE, active |-> <<>>, backups |-> <<>>]

\* TimedRotatingFileHandler.computeRollover for when="midnight": the next
\* interval boundary strictly after t.
computeRollover(t) == t + Interval

\* SizeAndTimeRotatingFileHandler.__init__ (delay=False: the file is opened,
\* hence created, by the constructor; rolloverAt from the file's mtime or now)
NewHandler(id, c, t) ==
    [id |-> id, rolloverAt |-> computeRollover(t),
     maxBytes |-> c.max_bytes, backupCount |-> c.backup_count]

OpenFile(f) == [f EXCEPT !.exists = TRUE]

\* super().shouldRollover(record): t >= self.rolloverAt
time_cond(h, t) == t >= h.rolloverAt

\* size_cond with a strict comparison
size_cond_strict(h, f, rec) ==
    LET cur_size == IF f.exists THEN FileSize(f.active) ELSE 0
    IN  h.maxBytes > 0 /\ cur_size + LineBytes(rec) > h.maxBytes

\* size_cond = self.maxBytes > 0 and (cur_size + len(msg) >= self.maxBytes)
size_cond(h, f, rec) ==
    LET cur_size == IF f.exists THEN FileSize(f.active) ELSE 0
    IN  h.maxBytes > 0 /\ cur_size + LineBytes(rec) >= h.maxBytes

\* shouldRollover with the size check gated by the time check
shouldRollover_gated(h, f, rec, t) == time_cond(h, t) /\ size_cond(h, f, rec)

shouldRollover(h, f, rec, t) == time_cond(h, t) \/ size_cond(h, f, rec)

\* TimedRotatingFileHandler.getFilesToDelete: sort the backups by suffix and
\* return all but the backupCount last ones.
getFilesToDelete(slots, backupCount) ==
    IF Cardinality(slots) < backupCount THEN {}
    ELSE {d \in slots : Cardinality({e \in slots : e > d}) >= backupCount}

\* The backup slot a rollover renames the active file into: the date of the
\* start of the interval, rolloverAt - interval.
RolloverSlot(h) == h.rolloverAt - Interval

\* TimedRotatingFileHandler.doRollover, as called from emit. n numbers the
\* rotation (history only).
doRollover(h, f, t, n) ==
    LET dfn == RolloverSlot(h)
        \* if os.path.exists(dfn): os.remove(dfn)
        kept == DOMAIN f.backups \ {dfn}
        \* self.rotate(self.baseFilename, dfn): rename if the source exists
        slots == IF f.exists THEN kept \cup {dfn} ELSE kept
        renamed == [d \in slots |->
                      IF d = dfn /\ f.exists THEN [rot |-> n, lines |-> f.active]
                      ELSE f.backups[d]]
        doomed == IF h.backupCount > 0
                  THEN getFilesToDelete(slots, h.backupCount) ELSE {}
        left == [d \in slots \ doomed |-> renamed[d]]
    IN  [h |-> [h EXCEPT !.rolloverAt = computeRollover(t)],
         \* if not self.delay: self.stream = self._open()
         f |-> [exists |-> TRUE, active |-> <<>>, backups |-> left]]

\* the outcomes of the file operations of one emit: none fails, the rollover
\* fails (before it changed the directory), or the write of the line fails
IoOutcomes == {"ok", "create_fail", "rotate_fail", "write_fail"}

\* BaseRotatingHandler.emit: rotate if due, then append the line; an exception
\* of either step ends the emit in handleError and the line is not written.
HandlerEmit(h, f, rec, t, n, io) ==
    LET roll == shouldRollover(h, f, rec, t)
        r == IF roll /\ io # "rotate_fail"
             THEN doRollover(h, f, t, n) ELSE [h |-> h, f |-> f]
        wrote == io = "ok"
    IN  [h |-> r.h,
         f |-> IF wrote THEN [r.f EXCEPT !.exists = TRUE, !.active = Append(@, rec)]
               ELSE r.f,
         rolled |-> roll /\ io # "rotate_fail",
         wrote |-> wrote]

RotEvent(h, f, rec, t) ==
    [slot |-> RolloverSlot(h), time |-> time_cond(h, t),
     size |-> size_cond(h, f, rec), lines |-> f.active, first |-> rec.id]

\* ---- SinkSpec: one sink, written to directly ------------------------------

MkRecord(id, prod, name, level, bytes) ==
    [id |-> id, prod |-> prod, name |-> name, level |-> level, bytes |-> bytes]

\* LogHelper._defaults (sizes scaled to the model)
DefaultConfig ==
    [max_bytes |-> SmallMaxBytes, backup_count |-> MaxBackupCount,
     console |-> TRUE, console_level |-> VERBOSE_LEVEL]

NoLogger == [qh |-> 0, level |-> 0]

\* the pipeline before _LogBus.start
BusIdle ==
    /\ started = FALSE
    /\ defaults = DefaultConfig
    /\ loggers = [p \in Procs |-> [s \in Streams |-> NoLogger]]
    /\ forked = FALSE
    /\ buf = [p \in Procs |-> <<>>]
    /\ pipe = <<>>
    /\ listener = "none"
    /\ stopPc = "idle"
    /\ beforeStop = {}
    /\ enqueued = {}
    /\ calls = {}
    /\ failed = {}
    /\ consoleOut = <<>>

IdleCall == [pc |-> "idle", name |-> "", got |-> 0, n |-> 0]
IdleStart == [pc |-> "idle", args |-> DefaultConfig, via |-> "", n |-> 0]

\* no thread is inside _get_or_create or start
ConcIdle ==
    /\ routerLock = "none"
    /\ rpc = [t \in LocalThreads |-> IdleCall]
    /\ busLock = "none"
    /\ spc = [t \in LocalThreads |-> IdleStart]
    /\ nBuses = 0

\* the class attributes of _LogBus in a process that has just imported the module
NoBus == [started |-> FALSE, listener |-> FALSE, queue |-> <<>>, handlers |-> <<>>]

\* the fake transaction before any query was run
NoTx == [raised |-> FALSE, last_query |-> <<>>, last_params |-> <<>>]

\* no Neo4jContext call is modelled
NoCall == [op |-> "none", query |-> <<>>, text |-> <<>>, params |-> <<>>, tx |-> NoTx]

\* nothing has been logged yet
LogIdle ==
    /\ createFailed = {}
    /\ malformed = {}
    /\ pbus = [p \in Procs |-> NoBus]
    /\ writers = [s \in Streams |-> {}]

ExtIdle ==
    /\ LogIdle
    /\ neo = NoCall

SinkInit ==
    /\ now = 0
    /\ cfg \in [max_bytes : MaxBytesChoices, backup_count : BackupCounts,
                 console : {FALSE}, console_level : {VERBOSE_LEVEL}]
    /\ handlers = [s \in {SinkStream} |-> NewHandler(1, cfg, 0)]
    /\ fs = [s \in Streams |-> IF s = SinkStream THEN OpenFile(NoFile) ELSE NoFile]
    /\ written = [s \in Streams |-> <<>>]
    /\ rotLog = [s \in Streams |-> <<>>]
    /\ nextId = 0
    /\ created = [s \in Streams |-> IF s = SinkStream THEN 1 ELSE 0]
    /\ BusIdle
    /\ ConcIdle
    /\ ExtIdle

\* handler.emit(record) on the sink of SinkStream
SinkWrite(bytes) ==
    /\ nextId < MaxWrites
    /\ LET s == SinkStream
           rec == MkRecord(nextId + 1, "m1", s, VERBOSE_LEVEL, bytes)
           r == HandlerEmit(handlers[s], fs[s], rec, now, Len(rotLog[s]) + 1, "ok")
       IN  /\ handlers' = [handlers EXCEPT ![s] = r.h]
           /\ fs' = [fs EXCEPT ![s] = r.f]
           /\ written' = [written EXCEPT ![s] = Append(@, rec)]
           /\ rotLog' = IF r.rolled
                        THEN [rotLog EXCEPT ![s] =
                                Append(@, RotEvent(handlers[s], fs[s], rec, now))]
                        ELSE rotLog
    /\ nextId' = nextId + 1
    /\ UNCHANGED <<now, cfg, created, busVars>>
    /\ UNCHANGED concVars
    /\ UNCHANGED extVars

\* the wall clock crosses an interval boundary
SinkTick ==
    /\ now < MaxDay
    /\ now' = now + 1
    /\ UNCHANGED <<cfg, handlers, fs, written, rotLog, nextId, created, busVars>>
    /\ UNCHANGED concVars
    /\ UNCHANGED extVars

SinkNext ==
    \/ \E bytes \in TextBytes : SinkWrite(bytes)
    \/ SinkTick

SinkSpec == SinkInit /\ [][SinkNext]_vars

\* ---- the pipeline: LogHelper, _LogBus, the queue, the listener --------------

\* bounds of the pipeline specification
MaxEmits == 3
MaxFailures == 1
PipeTextBytes == 2

\* the configurations callers install with LogHelper.configure
ConfigChoices ==
    {DefaultConfig,
     [max_bytes |-> 0, backup_count |-> 0, console |-> FALSE,
      console_level |-> VERBOSE_LEVEL]}

\* the logging calls the producers make: thread, stream, level
Calls ==
    {[t |-> "m1", s |-> "a", level |-> VERBOSE_LEVEL],
     [t |-> "m1", s |-> "a", level |-> 1],
     [t |-> "m1", s |-> "b", level |-> VERBOSE_LEVEL],
     [t |-> "c1", s |-> "a", level |-> VERBOSE_LEVEL]}

\* QueueListener._sentinel
Sentinel == MkRecord(0, "main", "", 0, 0)

\* mp.Queue.put_nowait on a front-inserting buffer
Put_front(q, x) == <<x>> \o q

\* mp.Queue.put_nowait: append to the calling process's buffer
Put(q, x) == Append(q, x)

\* a level check that lets every level through
isEnabledFor_any(lg, level) == level >= 0

\* Logger.isEnabledFor with the level get_logger set on the logger
isEnabledFor(lg, level) == level >= lg.level

Init ==
    /\ now = 0
    /\ cfg = DefaultConfig
    /\ handlers = <<>>
    /\ fs = [s \in Streams |-> NoFile]
    /\ written = [s \in Streams |-> <<>>]
    /\ rotLog = [s \in Streams |-> <<>>]
    /\ nextId = 0
    /\ created = [s \in Streams |-> 0]
    /\ BusIdle
    /\ ConcIdle
    /\ ExtIdle

\* LogHelper.configure(**kwargs)
Configure(c) ==
    /\ defaults' = c
    /\ UNCHANGED <<sinkVars, started, loggers, forked, buf, pipe, listener, stopPc,
                   beforeStop, enqueued, calls, failed, consoleOut>>
    /\ UNCHANGED concVars
    /\ UNCHANGED extVars

\* any(isinstance(h, QueueHandler) for h in logger.handlers)
HasQueueHandler(lg) == lg.qh > 0

\* logger.addHandler(QueueHandler(q)); logger.setLevel(VERBOSE_LEVEL)
AddQueueHandler(lg) == [qh |-> lg.qh + 1, level |-> VERBOSE_LEVEL]

\* the logger after get_logger ran alone: a QueueHandler is added unless one is
\* attached already
AttachQueueHandler(lg) == IF HasQueueHandler(lg) THEN lg ELSE AddQueueHandler(lg)

\* LogHelper.get_logger(name) by thread t, including _LogBus.start(**_defaults)
\* when the pipeline is not started
GetLogger(t, s) ==
    /\ ProcOf(t) = "child" => forked
    /\ IF started
       THEN UNCHANGED <<started, cfg, listener>>
       ELSE /\ started' = TRUE
            /\ cfg' = defaults
            /\ listener' = "running"
    /\ loggers' = [loggers EXCEPT ![ProcOf(t)][s] = AttachQueueHandler(@)]
    /\ UNCHANGED <<now, handlers, fs, written, rotLog, nextId, created, defaults,
                   forked, buf, pipe, stopPc, beforeStop, enqueued, calls,
                   failed, consoleOut>>
    /\ UNCHANGED concVars
    /\ UNCHANGED extVars

\* a child process is forked from the started main process: it inherits the
\* loggers and the queue, with an empty buffer of its own
Fork ==
    /\ started /\ ~forked /\ stopPc = "idle"
    /\ forked' = TRUE
    /\ loggers' = [loggers EXCEPT !["child"] = loggers["main"]]
    /\ UNCHANGED <<sinkVars, started, defaults, buf, pipe, listener, stopPc,
                   beforeStop, enqueued, calls, failed, consoleOut>>
    /\ UNCHANGED concVars
    /\ UNCHANGED extVars

\* QueueHandler.prepare formats the record: record.msg % record.args raises when
\* the arguments do not fit the template
PrepareOk(args_ok) == args_ok

\* mp.Queue(-1) has no capacity bound: put_nowait never waits for the consumer
CanPut_bounded(q) == Len(q) < 1

CanPut(q) == TRUE

RECURSIVE PutAll(_, _, _)
\* Logger.callHandlers: every QueueHandler attached to the logger puts the record
PutAll(q, x, n) == IF n = 0 THEN q ELSE PutAll(Put(q, x), x, n - 1)

\* the parent of a logger in the logging hierarchy: the logger named by the
\* dotted prefix of its name, "" (the root logger, which has no handler) if none
Parent(s) == IF s = "a.b" THEN "a" ELSE ""

RECURSIVE HandlersReached(_, _)
\* Logger.callHandlers with propagate = True (get_logger sets it): the
\* QueueHandlers of the logger and of each of its ancestors
HandlersReached(lgs, s) ==
    IF s \notin DOMAIN lgs THEN 0 ELSE lgs[s].qh + HandlersReached(lgs, Parent(s))

\* logger.log(level, msg, *args) by thread t on the logger of stream s:
\* Logger.isEnabledFor, then QueueHandler.emit: prepare and queue.put_nowait
\* inside try/except Exception -> handleError, which returns to the caller
Emit(t, s, level, args_ok) ==
    /\ nextId < MaxEmits
    /\ ProcOf(t) = "child" => forked
    /\ loggers[ProcOf(t)][s].qh > 0
    /\ CanPut(buf[ProcOf(t)])
    /\ nextId' = nextId + 1
    /\ LET rec == MkRecord(nextId + 1, t, s, level, PipeTextBytes)
       IN  /\ calls' = calls \cup {rec}
           /\ malformed' = IF args_ok THEN malformed ELSE malformed \cup {rec.id}
           /\ IF isEnabledFor(loggers[ProcOf(t)][s], level) /\ PrepareOk(args_ok)
              THEN /\ buf' = [buf EXCEPT ![ProcOf(t)] =
                                PutAll(@, rec, HandlersReached(loggers[ProcOf(t)], s))]
                   /\ enqueued' = enqueued \cup {rec.id}
              ELSE UNCHANGED <<buf, enqueued>>
    /\ UNCHANGED <<now, cfg, handlers, fs, written, rotLog, created, started,
                   defaults, loggers, forked, pipe, listener, stopPc, beforeStop,
                   failed, consoleOut>>
    /\ UNCHANGED concVars
    /\ UNCHANGED <<createFailed, procVars, neo>>

\* the feeder thread of process p sends the oldest buffered object to the pipe
Feed(p) ==
    /\ buf[p] # <<>>
    /\ pipe' = Append(pipe, Head(buf[p]))
    /\ buf' = [buf EXCEPT ![p] = Tail(@)]
    /\ UNCHANGED <<sinkVars, started, defaults, loggers, forked, listener, stopPc,
                   beforeStop, enqueued, calls, failed, consoleOut>>
    /\ UNCHANGED concVars
    /\ UNCHANGED extVars

\* a router that builds a new handler on every call
GetOrCreate_fresh(name) == NewHandler(created[name] + 1, cfg, now)

\* RouterHandler._get_or_create(name): the cached handler, or a new one
GetOrCreate(name) ==
    IF name \in DOMAIN handlers THEN handlers[name]
    ELSE NewHandler(created[name] + 1, cfg, now)

\* the state of the listener thread after RouterHandler.emit hit an exception
\* that nothing catches
ListenerAfter_uncaught(io) == IF io = "create_fail" THEN "dead" ELSE "running"

\* the state of the listener thread after handling a record: RouterHandler.emit
\* and the file handler's emit catch every Exception and call handleError
ListenerAfter(io) == "running"

\* QueueListener.handle with respect_handler_level: the router's level
RouterAccepts(rec) == rec.level >= VERBOSE_LEVEL

\* a console handler that takes every record
ConsoleAccepts_nolevel(rec) == cfg.console

\* the console handler's level (ch.setLevel(console_level)), when there is one
ConsoleAccepts(rec) == cfg.console /\ rec.level >= cfg.console_level

\* the listener thread dequeues one object and handles it (QueueListener._monitor):
\* the sentinel ends the thread; a record goes to the router (RouterHandler.emit:
\* _get_or_create, then the file handler's emit) and to the console handler
Dispatch(io) ==
    /\ listener = "running" /\ pipe # <<>>
    /\ pipe' = Tail(pipe)
    /\ IF Head(pipe) = Sentinel
       THEN /\ io = "ok"
            /\ listener' = "exited"
            /\ UNCHANGED <<handlers, fs, written, rotLog, created, failed, consoleOut>>
       ELSE LET rec == Head(pipe)
                s == rec.name
                isNew == s \notin DOMAIN handlers
                h0 == GetOrCreate(s)
                f0 == IF isNew THEN OpenFile(fs[s]) ELSE fs[s]
                r == HandlerEmit(h0, f0, rec, now, Len(rotLog[s]) + 1, io)
            IN  /\ io # "ok" => Cardinality(failed) < MaxFailures
                /\ io = "create_fail" => isNew
                /\ io = "rotate_fail" => shouldRollover(h0, f0, rec, now)
                /\ listener' = ListenerAfter(io)
                /\ IF ~RouterAccepts(rec)
                   THEN /\ io = "ok"
                        /\ UNCHANGED <<handlers, fs, written, rotLog, created, failed>>
                   ELSE IF io = "create_fail"
                   THEN /\ failed' = failed \cup {rec.id}
                        /\ UNCHANGED <<handlers, fs, written, rotLog, created>>
                   ELSE /\ handlers' = [n \in DOMAIN handlers \cup {s} |->
                                          IF n = s THEN r.h ELSE handlers[n]]
                        /\ fs' = [fs EXCEPT ![s] = r.f]
                        /\ created' = IF isNew THEN [created EXCEPT ![s] = @ + 1]
                                      ELSE created
                        /\ rotLog' = IF r.rolled
                                     THEN [rotLog EXCEPT ![s] =
                                             Append(@, RotEvent(h0, f0, rec, now))]
                                     ELSE rotLog
                        /\ written' = IF r.wrote
                                      THEN [written EXCEPT ![s] = Append(@, rec)]
                                      ELSE written
                        /\ failed' = IF r.wrote THEN failed ELSE failed \cup {rec.id}
                /\ consoleOut' = IF ListenerAfter(io) = "running" /\ ConsoleAccepts(rec)
                                 THEN Append(consoleOut, rec.id) ELSE consoleOut
    /\ UNCHANGED <<now, cfg, nextId, started, defaults, loggers, forked, buf, stopPc,
                   beforeStop, enqueued, calls>>
    /\ UNCHANGED concVars
    /\ createFailed' = IF Head(pipe) # Sentinel /\ RouterAccepts(Head(pipe))
                          /\ io = "create_fail"
                       THEN createFailed \cup {Head(pipe).id} ELSE createFailed
    /\ UNCHANGED <<malformed, procVars, neo>>

\* the atexit hook _stop, first half: cls._listener.stop() enqueues the sentinel
\* and starts to wait for the listener thread
StopEnqueue ==
    /\ started /\ stopPc = "idle"
    /\ buf' = [buf EXCEPT !["main"] = Put(@, Sentinel)]
    /\ stopPc' = "joining"
    /\ beforeStop' = enqueued
    /\ UNCHANGED <<sinkVars, started, defaults, loggers, forked, pipe, listener,
                   enqueued, calls, failed, consoleOut>>
    /\ UNCHANGED concVars
    /\ UNCHANGED extVars

\* a join that does not wait
JoinReturns_nowait(l) == TRUE

\* QueueListener.stop: self._thread.join() returns once the listener thread ended
JoinReturns(l) == l \in {"exited", "dead"}

\* the atexit hook _stop, second half: the join returns once the listener thread
\* has ended, then cls._router.close() closes and forgets every file handler
StopJoinClose ==
    /\ stopPc = "joining"
    /\ JoinReturns(listener)
    /\ handlers' = <<>>
    /\ stopPc' = "done"
    /\ UNCHANGED <<now, cfg, fs, written, rotLog, nextId, created, started, defaults,
                   loggers, forked, buf, pipe, listener, beforeStop, enqueued,
                   calls, failed, consoleOut>>
    /\ UNCHANGED concVars
    /\ UNCHANGED extVars

Next ==
    \/ \E c \in Calls : GetLogger(c.t, c.s)
    \/ Fork
    \/ \E c \in Calls : Emit(c.t, c.s, c.level, TRUE)
    \/ \E p \in Procs : Feed(p)
    \/ \E io \in IoOutcomes : Dispatch(io)
    \/ StopEnqueue
    \/ StopJoinClose

Spec == Init /\ [][Next]_vars

\* ---- ProducerSpec: one process, any template arguments, any console setup ----

\* the console set-ups callers install with LogHelper.configure
ConsoleChoices ==
    {DefaultConfig,
     [DefaultConfig EXCEPT !.console_level = DEBUG],
     [DefaultConfig EXCEPT !.console = FALSE]}

\* the levels the producer logs at
ProducerLevels == {VERBOSE_LEVEL, DEBUG}

\* how many logging calls the producer makes
MaxProducerEmits == 2

\* LogHelper.configure before the pipeline is started (configure after the start
\* changes nothing but _defaults, see StartSpec)
ConfigureBeforeStart(c) == ~started /\ Configure(c)

\* a logging call of the producer, with well-formed or malformed arguments
ProducerEmit(s, level, ok) == nextId < MaxProducerEmits /\ Emit("m1", s, level, ok)

ProducerNext ==
    \/ \E c \in ConsoleChoices : ConfigureBeforeStart(c)
    \/ \E s \in Streams : GetLogger("m1", s)
    \/ \E s \in Streams, level \in ProducerLevels, ok \in BOOLEAN : ProducerEmit(s, level, ok)
    \/ Feed("main")
    \/ \E io \in IoOutcomes : Dispatch(io)
    \/ StopEnqueue
    \/ StopJoinClose

ProducerSpec == Init /\ [][ProducerNext]_vars

\* ---- HierSpec: one process, stream names related by the logger hierarchy -----

\* a stream and a stream whose name has it as dotted prefix
HierStreams == {"a", "a.b"}

HierInit ==
    /\ now = 0
    /\ cfg = DefaultConfig
    /\ handlers = <<>>
    /\ fs = [s \in HierStreams |-> NoFile]
    /\ written = [s \in HierStreams |-> <<>>]
    /\ rotLog = [s \in HierStreams |-> <<>>]
    /\ nextId = 0
    /\ created = [s \in HierStreams |-> 0]
    /\ started = FALSE
    /\ defaults = DefaultConfig
    /\ loggers = [p \in Procs |-> [s \in HierStreams |-> NoLogger]]
    /\ forked = FALSE
    /\ buf = [p \in Procs |-> <<>>]
    /\ pipe = <<>>
    /\ listener = "none"
    /\ stopPc = "idle"
    /\ beforeStop = {}
    /\ enqueued = {}
    /\ calls = {}
    /\ failed = {}
    /\ consoleOut = <<>>
    /\ ConcIdle
    /\ createFailed = {}
    /\ malformed = {}
    /\ pbus = [p \in Procs |-> NoBus]
    /\ writers = [s \in HierStreams |-> {}]
    /\ neo = NoCall

\* get_logger, well-formed logging calls at VERBOSE_LEVEL, the queue, the
\* listener without I/O errors, and the shutdown hook
HierNext ==
    \/ \E s \in HierStreams : GetLogger("m1", s)
    \/ \E s \in HierStreams : Emit("m1", s, VERBOSE_LEVEL, TRUE)
    \/ Feed("main")
    \/ Dispatch("ok")
    \/ StopEnqueue
    \/ StopJoinClose

HierSpec == HierInit /\ [][HierNext]_vars

\* ---- ProcSpec: cooperating processes that each import the module ------------
\* (a process started with the spawn method, or forked before the pipeline was
\* started, does not inherit _LogBus._started). The configuration is one without
\* rotation, so that every handler's open stream is the stream's active file.

NoRotationConfig ==
    [max_bytes |-> 0, backup_count |-> 0, console |-> FALSE,
     console_level |-> VERBOSE_LEVEL]

ProcInit ==
    /\ now = 0
    /\ cfg = NoRotationConfig
    /\ handlers = <<>>
    /\ fs = [s \in Streams |-> NoFile]
    /\ written = [s \in Streams |-> <<>>]
    /\ rotLog = [s \in Streams |-> <<>>]
    /\ nextId = 0
    /\ created = [s \in Streams |-> 0]
    /\ started = FALSE
    /\ defaults = NoRotationConfig
    /\ loggers = [p \in Procs |-> [s \in Streams |-> NoLogger]]
    /\ forked = FALSE
    /\ buf = [p \in Procs |-> <<>>]
    /\ pipe = <<>>
    /\ listener = "none"
    /\ stopPc = "idle"
    /\ beforeStop = {}
    /\ enqueued = {}
    /\ calls = {}
    /\ failed = {}
    /\ consoleOut = <<>>
    /\ ConcIdle
    /\ ExtIdle

\* _LogBus.start in a process: its own queue, router and listener thread
StartBus(b) ==
    IF b.started THEN b
    ELSE [started |-> TRUE, listener |-> TRUE, queue |-> <<>>, handlers |-> <<>>]

\* LogHelper.get_logger(name) in process p
ProcGetLogger(p, s) ==
    /\ pbus' = [pbus EXCEPT ![p] = StartBus(@)]
    /\ loggers' = [loggers EXCEPT ![p][s] = AttachQueueHandler(@)]
    /\ UNCHANGED <<sinkVars, started, defaults, forked, buf, pipe, listener, stopPc,
                   beforeStop, enqueued, calls, failed, consoleOut>>
    /\ UNCHANGED <<concVars, createFailed, malformed, writers, neo>>

\* logger.log(VERBOSE_LEVEL, ...) in process p: the record goes to the queue of
\* that process's own _LogBus
ProcEmit(p, s) ==
    /\ nextId < MaxEmits
    /\ loggers[p][s].qh > 0
    /\ CanPut(pbus[p].queue)
    /\ nextId' = nextId + 1
    /\ LET rec == MkRecord(nextId + 1, p, s, VERBOSE_LEVEL, PipeTextBytes)
       IN  /\ calls' = calls \cup {rec}
           /\ enqueued' = enqueued \cup {rec.id}
           /\ pbus' = [pbus EXCEPT ![p].queue = PutAll(@, rec, HandlersReached(loggers[p], s))]
    /\ UNCHANGED <<now, cfg, handlers, fs, written, rotLog, created, started,
                   defaults, loggers, forked, buf, pipe, listener, stopPc,
                   beforeStop, failed, consoleOut>>
    /\ UNCHANGED <<concVars, createFailed, malformed, writers, neo>>

\* the listener thread of process p handles the oldest record of its queue:
\* RouterHandler.emit with the router of that process, on the shared log directory
ProcDispatch(p) ==
    /\ pbus[p].listener /\ pbus[p].queue # <<>>
    /\ LET rec == Head(pbus[p].queue)
           s == rec.name
           hs == pbus[p].handlers
           isNew == s \notin DOMAIN hs
           h0 == IF isNew THEN NewHandler(created[s] + 1, cfg, now) ELSE hs[s]
           f0 == IF isNew THEN OpenFile(fs[s]) ELSE fs[s]
           r == HandlerEmit(h0, f0, rec, now, Len(rotLog[s]) + 1, "ok")
       IN  /\ pbus' = [pbus EXCEPT ![p].queue = Tail(@),
                                   ![p].handlers = [n \in DOMAIN hs \cup {s} |->
                                                      IF n = s THEN r.h ELSE hs[n]]]
           /\ fs' = [fs EXCEPT ![s] = r.f]
           /\ created' = IF isNew THEN [created EXCEPT ![s] = @ + 1] ELSE created
           /\ written' = [written EXCEPT ![s] = Append(@, rec)]
           /\ writers' = [writers EXCEPT ![s] = @ \cup {p}]
    /\ UNCHANGED <<now, cfg, handlers, rotLog, nextId, busVars>>
    /\ UNCHANGED <<concVars, createFailed, malformed, neo>>

ProcNext ==
    \/ \E p \in Procs, s \in Streams : ProcGetLogger(p, s)
    \/ \E p \in Procs, s \in Streams : ProcEmit(p, s)
    \/ \E p \in Procs : ProcDispatch(p)

ProcSpec == ProcInit /\ [][ProcNext]_vars

\* ---- RouterSpec: concurrent calls of RouterHandler._get_or_create -----------

\* how many times one thread calls _get_or_create
MaxResolves == 2

RouterInit ==
    /\ now = 0
    /\ cfg = DefaultConfig
    /\ handlers = <<>>
    /\ fs = [s \in Streams |-> NoFile]
    /\ written = [s \in Streams |-> <<>>]
    /\ rotLog = [s \in Streams |-> <<>>]
    /\ nextId = 0
    /\ created = [s \in Streams |-> 0]
    /\ BusIdle
    /\ ConcIdle
    /\ ExtIdle

\* a lock that never makes a thread wait
CanAcquire_nolock(lock) == TRUE

\* "with self._lock:" / "with cls._lock:" lets a thread in when no thread holds it
CanAcquire(lock) == lock = "none"

\* thread t calls _get_or_create(name)
ResolveCall(t, name) ==
    /\ rpc[t].pc = "idle" /\ rpc[t].n < MaxResolves
    /\ rpc' = [rpc EXCEPT ![t] = [pc |-> "wait", name |-> name, got |-> 0, n |-> @.n + 1]]
    /\ UNCHANGED <<sinkVars, busVars, routerLock, busLock, spc, nBuses>>
    /\ UNCHANGED extVars

\* with self._lock:
ResolveAcquire(t) ==
    /\ rpc[t].pc = "wait" /\ CanAcquire(routerLock)
    /\ routerLock' = t
    /\ rpc' = [rpc EXCEPT ![t].pc = "locked"]
    /\ UNCHANGED <<sinkVars, busVars, busLock, spc, nBuses>>
    /\ UNCHANGED extVars

\* h = self._handlers.get(logger_name); if h: return h
ResolveLookup(t) ==
    /\ rpc[t].pc = "locked"
    /\ IF rpc[t].name \in DOMAIN handlers
       THEN /\ rpc' = [rpc EXCEPT ![t].pc = "idle", ![t].got = handlers[rpc[t].name].id]
            /\ routerLock' = "none"
       ELSE /\ rpc' = [rpc EXCEPT ![t].pc = "creating"]
            /\ UNCHANGED routerLock
    /\ UNCHANGED <<sinkVars, busVars, busLock, spc, nBuses>>
    /\ UNCHANGED extVars

\* os.makedirs, the handler's constructor (which opens the file), and
\* self._handlers[logger_name] = h; return h. When makedirs or the constructor
\* raises (~ok) nothing is stored and the exception leaves the with block.
ResolveCreate(t, ok) ==
    /\ rpc[t].pc = "creating"
    /\ routerLock' = "none"
    /\ LET name == rpc[t].name
           h == NewHandler(created[name] + 1, cfg, now)
       IN  IF ok
           THEN /\ handlers' = [n \in DOMAIN handlers \cup {name} |->
                                  IF n = name THEN h ELSE handlers[n]]
                /\ fs' = [fs EXCEPT ![name] = OpenFile(@)]
                /\ created' = [created EXCEPT ![name] = @ + 1]
                /\ rpc' = [rpc EXCEPT ![t].pc = "idle", ![t].got = h.id]
           ELSE /\ rpc' = [rpc EXCEPT ![t].pc = "idle"]
                /\ UNCHANGED <<handlers, fs, created>>
    /\ UNCHANGED <<now, cfg, written, rotLog, nextId, busVars, busLock, spc, nBuses>>
    /\ UNCHANGED extVars

RouterNext ==
    \/ \E t \in LocalThreads, name \in Streams : ResolveCall(t, name)
    \/ \E t \in LocalThreads : ResolveAcquire(t)
    \/ \E t \in LocalThreads : ResolveLookup(t)
    \/ \E t \in LocalThreads, ok \in BOOLEAN : ResolveCreate(t, ok)

RouterSpec == RouterInit /\ [][RouterNext]_vars

\* C2: for every stream name at most one sink is ever constructed (one file
\* opened), the router maps the name to it, and every call of _get_or_create
\* that returned for the name returned that one sink.
C2_OneSinkPerName ==
    /\ \A s \in Streams : created[s] <= 1
    /\ \A s \in Streams : (s \in DOMAIN handlers) <=> (created[s] = 1)
    /\ \A t \in LocalThreads :
          rpc[t].got # 0
          => /\ rpc[t].name \in DOMAIN handlers
             /\ handlers[rpc[t].name].id = rpc[t].got
             /\ created[rpc[t].name] = 1
    /\ \A t, u \in LocalThreads :
          (rpc[t].got # 0 /\ rpc[u].got # 0 /\ rpc[t].name = rpc[u].name)
          => rpc[t].got = rpc[u].got

\* C2 witness: three threads resolved the same new name, all of them got the one
\* sink, and two of them had been waiting for the lock while the third created it.
C2_Witness ==
    \E s \in Streams :
        /\ created[s] = 1
        /\ \A t \in LocalThreads :
              rpc[t].pc = "idle" /\ rpc[t].n = 1 /\ rpc[t].name = s /\ rpc[t].got # 0

\* ---- StartSpec: concurrent _LogBus.start / get_logger / configure -----------

\* how many calls one thread makes
MaxCalls == 2

\* a started check that never finds the pipeline started
AlreadyStarted_never(flag) == FALSE

\* if cls._started: return
AlreadyStarted(flag) == flag

\* thread t calls _LogBus.start(**c)
StartCall(t, c) ==
    /\ spc[t].pc = "idle" /\ spc[t].n < MaxCalls
    /\ spc' = [spc EXCEPT ![t] = [pc |-> "wait", args |-> c, via |-> "start", n |-> @.n + 1]]
    /\ UNCHANGED <<sinkVars, busVars, routerLock, rpc, busLock, nBuses>>
    /\ UNCHANGED extVars

\* thread t calls LogHelper.get_logger(name): "if not _LogBus._started:
\* _LogBus.start(**cls._defaults)", read without the lock
GetLoggerCall(t, s) ==
    /\ spc[t].pc = "idle" /\ spc[t].n < MaxCalls
    /\ spc' = [spc EXCEPT ![t] =
                 IF started
                 THEN [pc |-> "queue", args |-> @.args, via |-> s, n |-> @.n + 1]
                 ELSE [pc |-> "wait", args |-> defaults, via |-> s, n |-> @.n + 1]]
    /\ UNCHANGED <<sinkVars, busVars, routerLock, rpc, busLock, nBuses>>
    /\ UNCHANGED extVars

\* with cls._lock:
StartAcquire(t) ==
    /\ spc[t].pc = "wait" /\ CanAcquire(busLock)
    /\ busLock' = t
    /\ spc' = [spc EXCEPT ![t].pc = "locked"]
    /\ UNCHANGED <<sinkVars, busVars, routerLock, rpc, nBuses>>
    /\ UNCHANGED extVars

\* where a call of start returns to: get_logger goes on with _LogBus.queue()
AfterStart(call) == IF call.via = "start" THEN "idle" ELSE "queue"

\* if cls._started: return
StartCheck(t) ==
    /\ spc[t].pc = "locked"
    /\ IF AlreadyStarted(started)
       THEN /\ busLock' = "none"
            /\ spc' = [spc EXCEPT ![t].pc = AfterStart(spc[t])]
       ELSE /\ spc' = [spc EXCEPT ![t].pc = "init"]
            /\ UNCHANGED busLock
    /\ UNCHANGED <<sinkVars, busVars, routerLock, rpc, nBuses>>
    /\ UNCHANGED extVars

\* cls._queue = mp.Queue(-1); cls._router = RouterHandler(...); the console
\* handler; cls._listener = QueueListener(...); cls._listener.start()
StartBuild(t) ==
    /\ spc[t].pc = "init"
    /\ cfg' = spc[t].args
    /\ handlers' = <<>>
    /\ buf' = [p \in Procs |-> <<>>]
    /\ pipe' = <<>>
    /\ listener' = "running"
    /\ nBuses' = nBuses + 1
    /\ spc' = [spc EXCEPT ![t].pc = "publish"]
    /\ UNCHANGED <<now, fs, written, rotLog, nextId, created, started, defaults,
                   loggers, forked, stopPc, beforeStop, enqueued, calls, failed,
                   consoleOut, routerLock, rpc, busLock>>
    /\ UNCHANGED extVars

\* cls._started = True; atexit.register(_stop); the with block ends
StartPublish(t) ==
    /\ spc[t].pc = "publish"
    /\ started' = TRUE
    /\ busLock' = "none"
    /\ spc' = [spc EXCEPT ![t].pc = AfterStart(spc[t])]
    /\ UNCHANGED <<sinkVars, defaults, loggers, forked, buf, pipe, listener, stopPc,
                   beforeStop, enqueued, calls, failed, consoleOut, routerLock, rpc,
                   nBuses>>
    /\ UNCHANGED extVars

\* q = _LogBus.queue() ("if not cls._started: cls.start()" with start's own
\* defaults), then logger = logging.getLogger(name)
QueueCall(t) ==
    /\ spc[t].pc = "queue"
    /\ IF started
       THEN spc' = [spc EXCEPT ![t].pc = "check"]
       ELSE spc' = [spc EXCEPT ![t].pc = "wait", ![t].args = DefaultConfig]
    /\ UNCHANGED <<sinkVars, busVars, routerLock, rpc, busLock, nBuses>>
    /\ UNCHANGED extVars

\* if not any(isinstance(h, QueueHandler) for h in logger.handlers): read
\* without any lock
HandlerCheck(t) ==
    /\ spc[t].pc = "check"
    /\ spc' = [spc EXCEPT ![t].pc =
                 IF HasQueueHandler(loggers["main"][spc[t].via]) THEN "idle" ELSE "attach"]
    /\ UNCHANGED <<sinkVars, busVars, routerLock, rpc, busLock, nBuses>>
    /\ UNCHANGED extVars

\* qh = QueueHandler(q); logger.addHandler(qh); logger.setLevel(VERBOSE_LEVEL);
\* logger.propagate = True; return logger
HandlerAttach(t) ==
    /\ spc[t].pc = "attach"
    /\ loggers' = [loggers EXCEPT !["main"][spc[t].via] = AddQueueHandler(@)]
    /\ spc' = [spc EXCEPT ![t].pc = "idle"]
    /\ UNCHANGED <<sinkVars, started, defaults, forked, buf, pipe, listener, stopPc,
                   beforeStop, enqueued, calls, failed, consoleOut, routerLock, rpc,
                   busLock, nBuses>>
    /\ UNCHANGED extVars

StartNext ==
    \/ \E c \in ConfigChoices : Configure(c)
    \/ \E t \in LocalThreads, c \in ConfigChoices : StartCall(t, c)
    \/ \E t \in LocalThreads : GetLoggerCall(t, SinkStream)
    \/ \E t \in LocalThreads : StartAcquire(t)
    \/ \E t \in LocalThreads : StartCheck(t)
    \/ \E t \in LocalThreads : StartBuild(t)
    \/ \E t \in LocalThreads : StartPublish(t)
    \/ \E t \in LocalThreads : QueueCall(t)
    \/ \E t \in LocalThreads : HandlerCheck(t)
    \/ \E t \in LocalThreads : HandlerAttach(t)

StartSpec == RouterInit /\ [][StartNext]_vars

\* C7: queue, router and listener are built at most once, and once they are
\* built the installed configuration and the started pipeline never change,
\* whatever start, configure and get_logger calls follow.
C7_StartOnce ==
    /\ [](nBuses <= 1 /\ (started => nBuses = 1))
    /\ [][nBuses >= 1 => (cfg' = cfg /\ nBuses' = nBuses /\ listener' = listener
                          /\ (started => started'))]_vars

\* C7 witness: the pipeline is started, and a start call with another
\* configuration and a get_logger call after a configure with another
\* configuration have both returned.
C7_Witness ==
    /\ started /\ nBuses = 1
    /\ defaults # cfg
    /\ \E t, u \in LocalThreads :
          /\ t # u
          /\ spc[t].pc = "idle" /\ spc[t].via = "start" /\ spc[t].args # cfg
          /\ spc[u].pc = "idle" /\ spc[u].via = SinkStream /\ spc[u].n = 2
          /\ loggers["main"][SinkStream].qh = 1

\* ---- CypherSpec: context/query_compiler.py and context/neo4j_context.py ------
\* A text is the sequence of its pieces; a dict is a function from its keys; an
\* Optional is a sequence of length 0 (None) or 1.

RECURSIVE Join(_, _)
\* sep.join(chunks)
Join(chunks, sep) ==
    IF chunks = <<>> THEN <<>>
    ELSE IF Len(chunks) = 1 THEN chunks[1]
    ELSE chunks[1] \o <<sep>> \o Join(Tail(chunks), sep)

\* a.update(b), {**a, **b}: the keys of both, b's value where both have the key
Update(a, b) ==
    [k \in DOMAIN a \cup DOMAIN b |-> IF k \in DOMAIN b THEN b[k] ELSE a[k]]

RECURSIVE UpdateAll(_, _)
\* params.update(p) for every p of ps, in order
UpdateAll(params, ps) ==
    IF ps = <<>> THEN params ELSE UpdateAll(Update(params, Head(ps)), Tail(ps))

EmptyDict == [k \in {} |-> 0]

\* Node.pattern
NodePattern(m) ==
    LET lbl == IF m.labels # <<>>
               THEN <<":">> \o Join([i \in DOMAIN m.labels |-> <<m.labels[i]>>], ":")
               ELSE <<>>
    IN  <<"(", m.var>> \o lbl \o <<")">>

\* Rel.pattern
RelPattern(m) ==
    LET t == IF m.type # <<>> THEN <<":", m.type[1]>> ELSE <<>>
    IN  IF m.directed
        THEN <<"(", m.from_, ")-[">> \o t \o <<"]->(", m.to, ")">>
        ELSE <<"(", m.from_, ")-[">> \o t \o <<"]-(", m.to, ")">>

\* QueryCompiler._pattern
Pattern(m) == IF m.kind = "Node" THEN NodePattern(m) ELSE RelPattern(m)

\* f"__const_{id(e)}": one key per Const object
ConstKey(e) == IF e.id = 1 THEN "__const_1" ELSE "__const_2"

RECURSIVE Expr(_)
\* QueryCompiler._expr: the text of an expression and the parameters it adds
Expr(e) ==
    CASE e.kind = "Param" -> [s |-> <<"$", e.name>>, p |-> EmptyDict]
      [] e.kind = "Const" -> [s |-> <<"$", ConstKey(e)>>, p |-> (ConstKey(e) :> e.value)]
      [] e.kind = "Property" -> [s |-> <<e.var, ".", e.key>>, p |-> EmptyDict]
      [] e.kind = "Compare" ->
            LET l == Expr(e.left)
                r == Expr(e.right)
            IN  [s |-> l.s \o <<" ", e.op, " ">> \o r.s, p |-> Update(l.p, r.p)]
      [] e.kind \in {"And", "Or"} ->
            LET subs == [i \in DOMAIN e.exprs |-> Expr(e.exprs[i])]
                word == IF e.kind = "And" THEN " AND " ELSE " OR "
            IN  [s |-> Join([i \in DOMAIN subs |-> <<"(">> \o subs[i].s \o <<")">>], word),
                 p |-> UpdateAll(EmptyDict, [i \in DOMAIN subs |-> subs[i].p])]
      [] e.kind = "Not" ->
            LET x == Expr(e.expr)
            IN  [s |-> <<"NOT (">> \o x.s \o <<")">>, p |-> x.p]

\* QueryCompiler.to_cypher: the lines of the query joined by "\n", and the
\* parameters of its constants, of SKIP and of LIMIT
to_cypher(q) ==
    LET matchPart == IF q.match # <<>>
                     THEN << <<"MATCH ">> \o Join([i \in DOMAIN q.match |-> Pattern(q.match[i])], ", ") >>
                     ELSE <<>>
        w == IF q.where # <<>> THEN << Expr(q.where[1]) >> ELSE <<>>
        wherePart == IF q.where # <<>> THEN << <<"WHERE ">> \o w[1].s >> ELSE <<>>
        rets == [i \in DOMAIN q.returns |-> Expr(q.returns[i].expr)]
        retChunk(i) == IF q.returns[i].alias # <<>>
                       THEN rets[i].s \o <<" AS ", q.returns[i].alias[1]>>
                       ELSE rets[i].s
        retPart == IF q.returns # <<>>
                   THEN << <<"RETURN ">> \o Join([i \in DOMAIN q.returns |-> retChunk(i)], ", ") >>
                   ELSE << <<"RETURN *">> >>
        ords == [i \in DOMAIN q.order_by |-> Expr(q.order_by[i].expr)]
        ordPart == IF q.order_by # <<>>
                   THEN << <<"ORDER BY ">> \o
                           Join([i \in DOMAIN q.order_by |->
                                   ords[i].s \o <<" ", q.order_by[i].direction>>], ", ") >>
                   ELSE <<>>
        skipPart == IF q.skip # <<>> THEN << <<"SKIP $__skip">> >> ELSE <<>>
        limitPart == IF q.limit # <<>> THEN << <<"LIMIT $__limit">> >> ELSE <<>>
        skipParams == IF q.skip # <<>> THEN << ("__skip" :> q.skip[1]) >> ELSE <<>>
        limitParams == IF q.limit # <<>> THEN << ("__limit" :> q.limit[1]) >> ELSE <<>>
        parts == matchPart \o wherePart \o retPart \o ordPart \o skipPart \o limitPart
        dicts == [i \in DOMAIN w |-> w[i].p] \o [i \in DOMAIN rets |-> rets[i].p]
                 \o [i \in DOMAIN ords |-> ords[i].p] \o skipParams \o limitParams
    IN  [text |-> Join(parts, "\n"), params |-> UpdateAll(EmptyDict, dicts)]

\* the names of the positional parameters of the transaction's run method
\* (tests/test_neo4j_context.py: def run(self, cypher, **params))
TxPositional == {"self", "cypher"}

\* tx.run(cypher, **params): a keyword that names a positional parameter is a
\* TypeError ("got multiple values for argument"); otherwise the transaction
\* records the text and the keywords
TxRun(cypher, params) ==
    IF DOMAIN params \cap TxPositional # {}
    THEN [raised |-> TRUE, last_query |-> <<>>, last_params |-> <<>>]
    ELSE [raised |-> FALSE, last_query |-> cypher, last_params |-> params]

\* params or {}
OrEmpty(params) == IF params = <<>> THEN EmptyDict ELSE params[1]

\* Neo4jContext._execute
Execute(cypher, params) == TxRun(cypher, params)

\* Neo4jContext.run(query, params)
run(query, params) ==
    LET c == to_cypher(query)
        merged == Update(OrEmpty(params), c.params)
    IN  Execute(c.text, merged)

\* Neo4jContext.execute_cypher(cypher, params)
execute_cypher(cypher, params) == Execute(cypher, OrEmpty(params))

\* the queries, parameters and texts the callers pass
PersonNode == [kind |-> "Node", var |-> "p", labels |-> <<"Person">>]
CompanyNode == [kind |-> "Node", var |-> "c", labels |-> <<>>]
WorksAt == [kind |-> "Rel", from_ |-> "p", type |-> <<"WORKS_AT">>, to |-> "c", directed |-> TRUE]
Knows == [kind |-> "Rel", from_ |-> "p", type |-> <<>>, to |-> "c", directed |-> FALSE]
CompanyParam == [kind |-> "Param", name |-> "company"]
CypherParam == [kind |-> "Param", name |-> "cypher"]
FirstConst == [kind |-> "Const", id |-> 1, value |-> 5]
SecondConst == [kind |-> "Const", id |-> 2, value |-> 6]
NameOf(v) == [kind |-> "Property", var |-> v, key |-> "name"]
Compare(op, l, r) == [kind |-> "Compare", op |-> op, left |-> l, right |-> r]

Matches == {<<>>, <<PersonNode>>, <<PersonNode, WorksAt, CompanyNode>>, <<Knows>>}
Wheres ==
    {<<>>,
     << Compare("=", NameOf("c"), CompanyParam) >>,
     << [kind |-> "And", exprs |-> <<Compare("=", NameOf("c"), CompanyParam),
                                     Compare(">", NameOf("p"), FirstConst)>>] >>,
     << [kind |-> "Or", exprs |-> <<Compare("<>", NameOf("c"), CypherParam),
                                    [kind |-> "Not", expr |-> SecondConst]>>] >>}
Returns ==
    {<<>>,
     << [expr |-> NameOf("p"), alias |-> <<"name">>], [expr |-> FirstConst, alias |-> <<>>] >>}
Orders == {<<>>, << [expr |-> NameOf("p"), direction |-> "ASC"] >>}
Queries ==
    [match : Matches, where : Wheres, returns : Returns, order_by : Orders,
     skip : {<<>>, <<0>>}, limit : {<<>>, <<20>>}]

ParamNames == {"company", "cypher", "__skip"}
CallerValue == 7
\* None, or a dict over some of the names
CallerParams ==
    {<<>>} \cup {<< [k \in ks |-> CallerValue] >> : ks \in SUBSET ParamNames}
Texts == {<<"RETURN $company AS x">>, <<"RETURN $cypher AS x">>}

CypherInit ==
    /\ now = 0
    /\ cfg = DefaultConfig
    /\ handlers = <<>>
    /\ fs = [s \in Streams |-> NoFile]
    /\ written = [s \in Streams |-> <<>>]
    /\ rotLog = [s \in Streams |-> <<>>]
    /\ nextId = 0
    /\ created = [s \in Streams |-> 0]
    /\ BusIdle
    /\ ConcIdle
    /\ LogIdle
    /\ neo \in [op : {"none"}, query : Queries, text : Texts, params : CallerParams,
                 tx : {NoTx}]

\* ctx.run(query, params)
Run ==
    /\ neo.op = "none"
    /\ neo' = [neo EXCEPT !.op = "run", !.tx = run(neo.query, neo.params)]
    /\ UNCHANGED <<sinkVars, busVars, concVars, createFailed, malformed, procVars>>

\* ctx.execute_cypher(text, params)
ExecuteCypher ==
    /\ neo.op = "none"
    /\ neo' = [neo EXCEPT !.op = "execute_cypher", !.tx = execute_cypher(neo.text, neo.params)]
    /\ UNCHANGED <<sinkVars, busVars, concVars, createFailed, malformed, procVars>>

CypherNext == Run \/ ExecuteCypher

CypherSpec == CypherInit /\ [][CypherNext]_vars

\* ---- properties of the sink ------------------------------------------------

Last(q) == q[Len(q)]

\* the write step of stream s: one more line in its append history
WriteStep(s) == Len(written'[s]) = Len(written[s]) + 1

\* the rotation numbers that tag the backups on disk
BackupTags(f) == {f.backups[d].rot : d \in DOMAIN f.backups}

\* a rotation of stream s happened in this step: a backup with a new tag exists
RotatedStep(s) == ~(BackupTags(fs'[s]) \subseteq BackupTags(fs[s]))

\* the projected size of the active file reaches the configured maximum
WouldReachMax(s, rec) ==
    /\ cfg.max_bytes > 0
    /\ FileSize(fs[s].active) + rec.bytes + 1 >= cfg.max_bytes

\* C3: on every write whose record would bring the active file to max_bytes
\* or beyond, the sink rotates first: the record is the only line of the new
\* active file and the former active content is a backup file.
C3_SizeRotationFirst ==
    [][\A s \in DOMAIN handlers :
         (WriteStep(s) /\ WouldReachMax(s, Last(written'[s])))
         => /\ fs'[s].active = <<Last(written'[s])>>
            /\ \E d \in DOMAIN fs'[s].backups :
                  fs'[s].backups[d].lines = fs[s].active]_vars

\* C3 witness: two size-triggered rotations of non-empty files within the same
\* interval (same backup slot), the second one at exactly max_bytes.
C3_Witness ==
    \E i, j \in DOMAIN rotLog[SinkStream] :
        LET a == rotLog[SinkStream][i]
            b == rotLog[SinkStream][j]
        IN  /\ i < j /\ a.slot = b.slot
            /\ a.size /\ b.size /\ ~a.time /\ ~b.time
            /\ a.lines # <<>> /\ b.lines # <<>>
            /\ FileSize(b.lines) + written[SinkStream][b.first].bytes + 1 = cfg.max_bytes

\* C9: a write rotates exactly when the time boundary has been crossed or the
\* projected size reaches max_bytes (max_bytes > 0).
C9_RotatesIffEitherTrigger ==
    [][\A s \in DOMAIN handlers :
         WriteStep(s)
         => (RotatedStep(s) <=>
                (now >= handlers[s].rolloverAt \/ WouldReachMax(s, Last(written'[s]))))]_vars

\* C9 witness: a rotation by time alone, a rotation by size alone and a write
\* without rotation have all happened.
C9_Witness ==
    /\ \E i \in DOMAIN rotLog[SinkStream] :
          rotLog[SinkStream][i].time /\ ~rotLog[SinkStream][i].size
    /\ \E j \in DOMAIN rotLog[SinkStream] :
          rotLog[SinkStream][j].size /\ ~rotLog[SinkStream][j].time
    /\ \E k \in DOMAIN written[SinkStream] :
          \A i \in DOMAIN rotLog[SinkStream] : rotLog[SinkStream][i].first # k

\* C4: with backup_count = K > 0, after more than K rotations exactly K backups
\* exist and they are those of the K most recent rotations.
C4_ExactlyKMostRecentBackups ==
    \A s \in DOMAIN handlers :
        LET K == handlers[s].backupCount
            n == Len(rotLog[s])
        IN  (K > 0 /\ n > K)
            => /\ Cardinality(DOMAIN fs[s].backups) = K
               /\ BackupTags(fs[s]) = (n - K + 1)..n

\* how often record rec occurs in the active file and the backups of f
Occurrences(rec, f) ==
    Cardinality({i \in DOMAIN f.active : f.active[i] = rec})
    + Cardinality({p \in {q \in (DOMAIN f.backups) \X (1..MaxWrites) :
                             q[2] \in DOMAIN f.backups[q[1]].lines} :
                      f.backups[p[1]].lines[p[2]] = rec})

\* C5: while at most backup_count rotations happened, every written record is
\* present exactly once in the active file and the retained backups.
C5_NoRecordLostWithinRetention ==
    \A s \in DOMAIN handlers :
        Len(rotLog[s]) <= handlers[s].backupCount
        => \A i \in DOMAIN written[s] : Occurrences(written[s][i], fs[s]) = 1

\* ---- properties of the pipeline ---------------------------------------------

\* the ids of the lines appended to the files of stream s
WrittenIds(s) == {written[s][i].id : i \in DOMAIN written[s]}

AllWrittenIds == UNION {WrittenIds(s) : s \in Streams}

\* the ids of the records still in the queue (a buffer or the pipe)
InFlight ==
    {pipe[i].id : i \in DOMAIN pipe}
    \cup UNION {{buf[p][i].id : i \in DOMAIN buf[p]} : p \in Procs}

\* C1: the lines of one producer in one stream's files are appended in the
\* order of that producer's emit calls (ids number the calls in call order).
C1_FifoPerProducer ==
    \A s \in Streams : \A i, j \in DOMAIN written[s] :
        (i < j /\ written[s][i].prod = written[s][j].prod)
        => written[s][i].id < written[s][j].id

\* C1 witness: a stream holds two lines of one producer, and a line of another
\* producer that was emitted between them but appended after both.
C1_Witness ==
    \E s \in Streams : \E i, j, k \in DOMAIN written[s] :
        /\ i < j /\ j < k
        /\ written[s][i].prod = written[s][j].prod
        /\ written[s][k].prod # written[s][i].prod
        /\ written[s][i].id < written[s][k].id
        /\ written[s][k].id < written[s][j].id

\* C6: when _stop has returned, every record enqueued before _stop was invoked
\* is a line of its stream's file (unless its own write hit an I/O error).
C6_ShutdownDrains ==
    stopPc = "done" => \A id \in beforeStop : id \in AllWrittenIds \cup failed

\* C8: a logging call below the logger's level pushes nothing and never becomes
\* a line; a call at or above the level is pushed into the queue.
C8_LevelFilter ==
    \A r \in calls :
        IF r.level < loggers[ProcOf(r.prod)][r.name].level
        THEN r.id \notin enqueued \cup InFlight \cup AllWrittenIds
        ELSE r.id \in enqueued

\* C8 witness: a call below the level was made and dropped, and a call at the
\* level was made on the same stream and written.
C8_Witness ==
    \E r, q \in calls :
        /\ r.name = q.name
        /\ r.level < loggers[ProcOf(r.prod)][r.name].level
        /\ q.level >= loggers[ProcOf(q.prod)][q.name].level
        /\ q.id \in WrittenIds(q.name)
        /\ r.id < q.id

\* C10: a failure of creating, rotating or writing a sink ends only the
\* handling of that record: the listener thread never dies of it, it ends only
\* by the stop marker, and every record taken from the queue is a line of its
\* stream's file unless its own handling failed.
C10_SinkFailureContained ==
    /\ listener # "dead"
    /\ listener = "exited" => stopPc # "idle"
    /\ \A id \in enqueued \ InFlight : id \in AllWrittenIds \cup failed
    /\ AllWrittenIds \cap failed = {}

\* C10 witness: the handling of one record failed, and records emitted later
\* were written both to the same stream and to another stream.
C10_Witness ==
    \E r \in calls :
        /\ r.id \in failed
        /\ \E q \in calls : q.id > r.id /\ q.name = r.name /\ q.id \in WrittenIds(q.name)
        /\ \E q \in calls : q.id > r.id /\ q.name # r.name /\ q.id \in WrittenIds(q.name)

\* C11: once start has completed successfully, no initialization error (the log
\* directory or a sink's file cannot be created) arises any more.
C11_InitErrorsOnlyAtStart == started => createFailed = {}

\* C12: a logging call whose arguments do not fit the template, made at or above
\* the logger's level, is still pushed into the queue.
C12_MalformedStillEnqueued ==
    \A r \in calls :
        (r.id \in malformed /\ r.level >= loggers[ProcOf(r.prod)][r.name].level)
        => r.id \in enqueued

\* how often id occurs in the sequence q
Count(id, q) == Cardinality({i \in DOMAIN q : q[i] = id})

\* the ids the listener has taken from the queue
Dequeued == enqueued \ InFlight

\* C13: a record is on the console exactly once if it was dequeued, the console
\* is enabled and its level is at least console_level, whatever its stream and
\* whatever became of its file write; otherwise it is not on the console.
C13_ConsoleIndependent ==
    \A r \in calls :
        Count(r.id, consoleOut) =
            IF r.id \in Dequeued /\ cfg.console /\ r.level >= cfg.console_level
            THEN 1 ELSE 0

\* C13 witness: a record whose file handling failed is on the console, and a
\* record below console_level was written to its file and is not on the console.
C13_Witness ==
    \E r, q \in calls :
        /\ r.id \in failed /\ Count(r.id, consoleOut) = 1
        /\ q.id \in WrittenIds(q.name) /\ q.level < cfg.console_level
        /\ Count(q.id, consoleOut) = 0
        /\ r.name # q.name

\* C14: when _stop has returned, no record pushed into the queue after _stop was
\* invoked is left undelivered (the queue takes no push once shutdown began).
C14_SealedAfterShutdown ==
    stopPc = "done" => (enqueued \ beforeStop) \subseteq (AllWrittenIds \cup failed)

\* the caller of c holds a logger with a queue handler and may log once more
CanCall(c) ==
    /\ nextId < MaxEmits
    /\ ProcOf(c.t) = "child" => forked
    /\ loggers[ProcOf(c.t)][c.s].qh > 0

\* C16: a logging call can complete in every state, whatever the listener and
\* the queue are doing, and the step that completes it touches no file, no sink
\* and nothing of the listener.
C16_EmitDecoupled ==
    /\ [](\A c \in Calls : CanCall(c) => ENABLED Emit(c.t, c.s, c.level, TRUE))
    /\ [][nextId' # nextId
           => (fs' = fs /\ handlers' = handlers /\ written' = written
               /\ consoleOut' = consoleOut /\ pipe' = pipe /\ listener' = listener)]_vars

\* C16 witness: three calls completed and were pushed while the listener, though
\* running, has handled none of them.
C16_Witness ==
    /\ listener = "running" /\ AllWrittenIds = {} /\ consoleOut = <<>>
    /\ Cardinality(enqueued) >= 3 /\ enqueued \subseteq InFlight
    /\ pipe # <<>>

\* C17: until _stop closes the router, a sink that exists stays in the router
\* and stays the same instance, through writes, rotations and failures, and no
\* second sink is ever built for its name.
C17_NoEviction ==
    /\ [](\A s \in Streams : created[s] <= 1)
    /\ [][\A s \in DOMAIN handlers :
            stopPc' # "done"
            => (s \in DOMAIN handlers' /\ handlers'[s].id = handlers[s].id)]_vars

\* C17 witness: a sink took two lines, rotated and saw a failed write, and is
\* still the first and only instance for its name.
C17_Witness ==
    \E s \in DOMAIN handlers :
        /\ Len(written[s]) >= 2 /\ rotLog[s] # <<>>
        /\ \E r \in calls : r.name = s /\ r.id \in failed
        /\ handlers[s].id = 1 /\ created[s] = 1

\* C19: the sinks are closed only when the listener thread has exited, nothing
\* is written once _stop has returned, and when _stop has returned the listener
\* thread has ended at the stop marker and no sink is open.
C19_CloseAfterDispatcherExit ==
    /\ [](stopPc = "done" => (listener = "exited" /\ handlers = <<>>))
    /\ [][(handlers # <<>> /\ handlers' = <<>>) => listener = "exited"]_vars
    /\ [][stopPc = "done" => (written' = written /\ fs' = fs /\ handlers' = handlers)]_vars

\* C19 witness: _stop has returned after the sinks of both streams had been
\* created and written to.
C19_Witness ==
    /\ stopPc = "done" /\ handlers = <<>>
    /\ \A s \in Streams : created[s] = 1 /\ written[s] # <<>>

\* C15: at most one listener thread exists, and the file of every stream is
\* created and written by the listener of one process only.
C15_SingleWriter ==
    /\ Cardinality({p \in Procs : pbus[p].listener}) <= 1
    /\ \A s \in Streams : Cardinality(writers[s]) <= 1 /\ created[s] <= 1

\* C18: run has the transaction execute exactly the compiled text with every
\* caller parameter and every compiler parameter, the compiler's value where
\* both have the name; execute_cypher has it execute the given text with the
\* given parameters.
C18_RunMergesExecutePassesThrough ==
    LET caller == OrEmpty(neo.params)
        c == to_cypher(neo.query)
        got == neo.tx.last_params
    IN  /\ neo.op = "run"
           => /\ ~neo.tx.raised
              /\ neo.tx.last_query = c.text
              /\ DOMAIN got = DOMAIN caller \cup DOMAIN c.params
              /\ \A k \in DOMAIN c.params : got[k] = c.params[k]
              /\ \A k \in DOMAIN caller \ DOMAIN c.params : got[k] = caller[k]
        /\ neo.op = "execute_cypher"
           => /\ ~neo.tx.raised
              /\ neo.tx.last_query = neo.text
              /\ got = caller

\* C20: whatever the interleaving of get_logger calls for a name, its logger
\* has at most one queue handler (so that a logging call pushes one record).
C20_OneQueueHandler ==
    \A p \in Procs, s \in Streams : loggers[p][s].qh <= 1

\* how many lines of the files of stream s come from the logging call id
Lines(id, s) == Cardinality({i \in DOMAIN written[s] : written[s][i].id = id})

\* C21: without I/O errors, when _stop has returned, every logging call that
\* passed the level filter before _stop was invoked has exactly one line in the
\* file of its own stream and none in the file of any other stream.
C21_ExactlyOnce ==
    stopPc = "done"
    => \A r \in calls :
          r.id \in beforeStop
          => \A s \in DOMAIN written : Lines(r.id, s) = (IF s = r.name THEN 1 ELSE 0)

=============================================================================
